---- MODULE Spec2Model ----
(***************************************************************************)
(* Model of the JSONPlaceholder API client (src/src/api-client.ts): the    *)
(* client object, its endpoint methods, the generic request executor       *)
(* makeRequest and the transport/upstream it talks to.                     *)
(*                                                                         *)
(* JavaScript values are modelled as follows.                              *)
(*   - an object is a record; an optional or missing property is a field   *)
(*     that is absent from the record's DOMAIN; {} is the empty record;    *)
(*   - an argument that was not passed (undefined) is the value Undefined; *)
(*   - a string built by a template literal is a sequence of string        *)
(*     chunks, a number interpolated into it is converted with ToString;   *)
(*   - title and body are plain strings, "" being the empty string.        *)
(***************************************************************************)
EXTENDS Integers, Sequences, FiniteSets, TLC

VARIABLES
    baseUrl,   \* this.baseUrl of the client
    timeout,   \* this.timeout of the client
    pc,        \* per caller: "idle", "pending" (awaiting axios), "resolved", "rejected"
    op,        \* per caller: the endpoint method invoked and its arguments
    sent,      \* per caller: the request configs handed to axios by the current call
    outcome,   \* per caller: what axios settled with (response or error object)
    result,    \* per caller: the envelope the call resolved with / the Error it rejected with
    persisted, \* the writes the upstream service has applied to its stored posts
    ctorArgs,  \* the arguments the client was constructed with
    written,   \* how many calls have returned a write the upstream answered with
               \* success (up to MaxWrites)
    main       \* the example workflow main(): its position, the calls it has issued,
               \* the responses it holds, its outcome and what the script wrote

vars == <<baseUrl, timeout, pc, op, sent, outcome, result, persisted, ctorArgs, written,
          main>>

----------------------------------------------------------------------------
(* Bounds of the model *)

\* number of callers sharing the one client instance
NumCallers == 1

Callers == 1..NumCallers

\* the count of successful writes is kept up to this number
MaxWrites == 1

----------------------------------------------------------------------------
(* JavaScript helpers *)

Undefined == [undefined |-> TRUE]

None == [none |-> TRUE]

EmptyObject == [k \in {} |-> TRUE]

\* `v && ...` / `!v` for an argument that is an object or undefined
\* a truthiness under which an empty object counts as absent
TruthyNonEmpty(v) == v # Undefined /\ v # EmptyObject

Truthy(v) == v # Undefined

\* !obj.k for a string property k: missing (undefined/null) or the empty string
FalsyString(obj, k) == k \notin DOMAIN obj \/ obj[k] = ""

\* new Error(message)
NewError(message) == [name |-> "Error", message |-> message]

\* `${error}`: Error.prototype.toString() gives "<name>: <message>"
ErrorToString(error) == <<error.name, ": ">> \o error.message

----------------------------------------------------------------------------
(* The client: constructor, makeRequest, endpoint methods *)

DefaultBaseUrl == "https://jsonplaceholder.typicode.com"

DefaultTimeout == 10000

\* constructor(baseUrl = DefaultBaseUrl, timeout = DefaultTimeout): args holds
\* the arguments that were passed
Constructor(args) ==
    [baseUrl |-> IF "baseUrl" \in DOMAIN args THEN args.baseUrl ELSE DefaultBaseUrl,
     timeout |-> IF "timeout" \in DOMAIN args THEN args.timeout ELSE DefaultTimeout]

\* The config object makeRequest builds and hands to axios:
\* { method, url: `${this.baseUrl}${endpoint}`, timeout: this.timeout,
\*   ...(data && { data }), ...(params && { params }) }
\* a config built from the defaults instead of the instance's fields
BuildConfigDefaults(method, endpoint, data, params) ==
    [method |-> method, url |-> <<DefaultBaseUrl>> \o endpoint, timeout |-> DefaultTimeout]
        @@ (IF Truthy(data) THEN [data |-> data] ELSE EmptyObject)
        @@ (IF Truthy(params) THEN [params |-> params] ELSE EmptyObject)

BuildConfig(method, endpoint, data, params) ==
    [method |-> method, url |-> <<baseUrl>> \o endpoint, timeout |-> timeout]
        @@ (IF Truthy(data) THEN [data |-> data] ELSE EmptyObject)
        @@ (IF Truthy(params) THEN [params |-> params] ELSE EmptyObject)

\* An invocation of an endpoint method either throws before any request
\* (throw |-> the Error) or calls makeRequest (request |-> its arguments).
Throw(message) == [throw |-> NewError(message)]

MakeRequest(method, endpoint, data, params) ==
    [request |-> BuildConfig(method, endpoint, data, params)]

getPosts == MakeRequest("GET", <<"/posts">>, Undefined, Undefined)

\* getPost with the boundary of its check off by one: 0 passes
getPostLax(id) ==
    IF id < 0
    THEN Throw(<<"Post ID must be positive">>)
    ELSE MakeRequest("GET", <<"/posts/", ToString(id)>>, Undefined, Undefined)

getPost(id) ==
    IF id <= 0
    THEN Throw(<<"Post ID must be positive">>)
    ELSE MakeRequest("GET", <<"/posts/", ToString(id)>>, Undefined, Undefined)

getPostComments(postId) ==
    MakeRequest("GET", <<"/posts/", ToString(postId), "/comments">>, Undefined, Undefined)

\* createPost rejecting only when title and body are both missing
createPostBothMissing(postData) ==
    IF FalsyString(postData, "title") /\ FalsyString(postData, "body")
    THEN Throw(<<"Title and body are required">>)
    ELSE MakeRequest("POST", <<"/posts">>, postData, Undefined)

\* createPost sending title and body but not userId
createPostNoUserId(postData) ==
    IF FalsyString(postData, "title") \/ FalsyString(postData, "body")
    THEN Throw(<<"Title and body are required">>)
    ELSE MakeRequest("POST", <<"/posts">>,
                     [title |-> postData.title, body |-> postData.body], Undefined)

\* createPost validating the title only
createPostTitleOnly(postData) ==
    IF FalsyString(postData, "title")
    THEN Throw(<<"Title and body are required">>)
    ELSE MakeRequest("POST", <<"/posts">>, postData, Undefined)

createPost(postData) ==
    IF FalsyString(postData, "title") \/ FalsyString(postData, "body")
    THEN Throw(<<"Title and body are required">>)
    ELSE MakeRequest("POST", <<"/posts">>, postData, Undefined)

\* updatePost sending the body without its userId
updatePostDropUserId(id, postData) ==
    MakeRequest("PUT", <<"/posts/", ToString(id)>>,
                [k \in DOMAIN postData \ {"userId"} |-> postData[k]], Undefined)

updatePost(id, postData) ==
    MakeRequest("PUT", <<"/posts/", ToString(id)>>, postData, Undefined)

\* patchPost issuing a full update (PUT) instead of a PATCH
patchPostAsPut(id, postData) ==
    MakeRequest("PUT", <<"/posts/", ToString(id)>>, postData, Undefined)

patchPost(id, postData) ==
    MakeRequest("PATCH", <<"/posts/", ToString(id)>>, postData, Undefined)

\* deletePost reading the post instead of deleting it
deletePostAsGet(id) ==
    MakeRequest("GET", <<"/posts/", ToString(id)>>, Undefined, Undefined)

deletePost(id) ==
    MakeRequest("DELETE", <<"/posts/", ToString(id)>>, Undefined, Undefined)

getComments(params) == MakeRequest("GET", <<"/comments">>, Undefined, params)

getComment(id) ==
    MakeRequest("GET", <<"/comments/", ToString(id)>>, Undefined, Undefined)

getAlbums == MakeRequest("GET", <<"/albums">>, Undefined, Undefined)

getAlbum(id) ==
    MakeRequest("GET", <<"/albums/", ToString(id)>>, Undefined, Undefined)

getAlbumPhotos(albumId) ==
    MakeRequest("GET", <<"/albums/", ToString(albumId), "/photos">>, Undefined, Undefined)

\* getPhotos not forwarding its filter
getPhotosUnfiltered(params) == MakeRequest("GET", <<"/photos">>, Undefined, Undefined)

getPhotos(params) == MakeRequest("GET", <<"/photos">>, Undefined, params)

\* getPhoto asking the albums collection
getPhotoFromAlbums(id) ==
    MakeRequest("GET", <<"/albums/", ToString(id)>>, Undefined, Undefined)

getPhoto(id) ==
    MakeRequest("GET", <<"/photos/", ToString(id)>>, Undefined, Undefined)

\* getTodos forwarding the user filter only
getTodosUserOnly(params) ==
    MakeRequest("GET", <<"/todos">>, Undefined,
                IF params # Undefined /\ "userId" \in DOMAIN params
                THEN [userId |-> params.userId]
                ELSE params)

\* getTodos leaving a false `completed` out of the query
getTodosDropFalse(params) ==
    MakeRequest("GET", <<"/todos">>, Undefined,
                IF params # Undefined /\ "completed" \in DOMAIN params
                   /\ ~params.completed
                THEN [k \in DOMAIN params \ {"completed"} |-> params[k]]
                ELSE params)

getTodos(params) == MakeRequest("GET", <<"/todos">>, Undefined, params)

\* getTodo validating its id the way getPost does
getTodoChecked(id) ==
    IF id <= 0
    THEN Throw(<<"Todo ID must be positive">>)
    ELSE MakeRequest("GET", <<"/todos/", ToString(id)>>, Undefined, Undefined)

getTodo(id) ==
    MakeRequest("GET", <<"/todos/", ToString(id)>>, Undefined, Undefined)

getUsers == MakeRequest("GET", <<"/users">>, Undefined, Undefined)

getUser(id) ==
    MakeRequest("GET", <<"/users/", ToString(id)>>, Undefined, Undefined)

\* getUserPosts asking for the single post of that id
getUserPostsAsPost(userId) ==
    MakeRequest("GET", <<"/posts/", ToString(userId)>>, Undefined, Undefined)

getUserPosts(userId) ==
    MakeRequest("GET", <<"/users/", ToString(userId), "/posts">>, Undefined, Undefined)

\* getUserTodos asking for the user's posts
getUserTodosAsPosts(userId) ==
    MakeRequest("GET", <<"/users/", ToString(userId), "/posts">>, Undefined, Undefined)

getUserTodos(userId) ==
    MakeRequest("GET", <<"/users/", ToString(userId), "/todos">>, Undefined, Undefined)

getUserAlbums(userId) ==
    MakeRequest("GET", <<"/users/", ToString(userId), "/albums">>, Undefined, Undefined)

\* OnResponse reporting every success as 200 OK
OnResponseOk(response) ==
    [data |-> response.data, status |-> 200, statusText |-> "OK"]

\* makeRequest after `await axios(config)` resolved with response
OnResponse(response) ==
    [data |-> response.data, status |-> response.status, statusText |-> response.statusText]

\* OnError leaving the status out of the remote-rejection message
OnErrorNoStatus(error) ==
    IF "response" \in DOMAIN error
    THEN NewError(<<"API request failed: ">> \o error.message)
    ELSE IF "code" \in DOMAIN error /\ error.code = "ECONNABORTED"
    THEN NewError(<<"Request timed out after ", ToString(timeout), "ms">>)
    ELSE NewError(<<"Unexpected error: ">> \o ErrorToString(error))

\* OnError reporting the default timeout instead of the client's
OnErrorDefaultTimeout(error) ==
    IF "response" \in DOMAIN error
    THEN NewError(<<"API request failed: ">> \o error.message
                      \o <<" - Status: ", ToString(error.response.status)>>)
    ELSE IF "code" \in DOMAIN error /\ error.code = "ECONNABORTED"
    THEN NewError(<<"Request timed out after ", ToString(DefaultTimeout), "ms">>)
    ELSE NewError(<<"Unexpected error: ">> \o ErrorToString(error))

\* OnError taking every error without a response for a timeout
OnErrorAllTimeouts(error) ==
    IF "response" \in DOMAIN error
    THEN NewError(<<"API request failed: ">> \o error.message
                      \o <<" - Status: ", ToString(error.response.status)>>)
    ELSE NewError(<<"Request timed out after ", ToString(timeout), "ms">>)

\* a catch block that looks at the timeout code before the response
OnErrorTimeoutFirst(error) ==
    IF "code" \in DOMAIN error /\ error.code = "ECONNABORTED"
    THEN NewError(<<"Request timed out after ", ToString(timeout), "ms">>)
    ELSE IF "response" \in DOMAIN error
    THEN NewError(<<"API request failed: ">> \o error.message
                      \o <<" - Status: ", ToString(error.response.status)>>)
    ELSE NewError(<<"Unexpected error: ">> \o ErrorToString(error))

\* makeRequest's catch block: the Error thrown for the caught error object
OnError(error) ==
    IF "response" \in DOMAIN error
    THEN NewError(<<"API request failed: ">> \o error.message
                      \o <<" - Status: ", ToString(error.response.status)>>)
    ELSE IF "code" \in DOMAIN error /\ error.code = "ECONNABORTED"
    THEN NewError(<<"Request timed out after ", ToString(timeout), "ms">>)
    ELSE NewError(<<"Unexpected error: ">> \o ErrorToString(error))

----------------------------------------------------------------------------
(* The arguments callers pass *)

CtorArgs == {EmptyObject, [baseUrl |-> "http://localhost:3000", timeout |-> 5000]}

IdArgs == {-1, 0, 1, 999}

CreateArgs ==
    {t @@ b @@ [userId |-> u] :
        t \in {EmptyObject, [title |-> ""], [title |-> "T"]},
        b \in {EmptyObject, [body |-> ""], [body |-> "B"]},
        u \in {1, 2}}

UpdateArgs == {EmptyObject, [title |-> "T"], [title |-> "T", body |-> "B", userId |-> 5]}

CommentFilters == {Undefined, [postId |-> 1], [postId |-> 999]}

PhotoFilters == {Undefined, [albumId |-> 1], [albumId |-> 999]}

TodoFilters ==
    {Undefined, EmptyObject, [userId |-> 1], [userId |-> 999], [completed |-> FALSE],
     [userId |-> 1, completed |-> TRUE], [userId |-> 1, completed |-> FALSE]}

----------------------------------------------------------------------------
(* The upstream mock service, as the test suites describe it *)

PostCount == 100
CommentCount == 500
AlbumCount == 100
PhotoCount == 5000
TodoCount == 200
UserCount == 10

PostsPerUser == 10
CommentsPerPost == 5
AlbumsPerUser == 10
PhotosPerAlbum == 50
TodosPerUser == 20

\* the parent of the i-th child when every parent has `per` children
ParentOf(i, per) == ((i - 1) \div per) + 1

StoredPost(i) ==
    [userId |-> ParentOf(i, PostsPerUser), id |-> i,
     title |-> "stored title", body |-> "stored body"]

StoredComment(i) ==
    [postId |-> ParentOf(i, CommentsPerPost), id |-> i,
     name |-> "name", email |-> "user@example.com", body |-> "comment body"]

StoredAlbum(i) ==
    [userId |-> ParentOf(i, AlbumsPerUser), id |-> i, title |-> "album title"]

StoredPhoto(i) ==
    [albumId |-> ParentOf(i, PhotosPerAlbum), id |-> i, title |-> "photo title",
     url |-> "https://via.placeholder.com/600",
     thumbnailUrl |-> "https://via.placeholder.com/150"]

StoredTodo(i) ==
    [userId |-> ParentOf(i, TodosPerUser), id |-> i, title |-> "todo title",
     completed |-> (i % 2 = 0)]

StoredUser(i) ==
    [id |-> i, name |-> "name", username |-> "username", email |-> "user@example.com"]

InitialPosts == [i \in 1..PostCount |-> StoredPost(i)]

Comments == [i \in 1..CommentCount |-> StoredComment(i)]

Albums == [i \in 1..AlbumCount |-> StoredAlbum(i)]

Photos == [i \in 1..PhotoCount |-> StoredPhoto(i)]

Todos == [i \in 1..TodoCount |-> StoredTodo(i)]

Users == [i \in 1..UserCount |-> StoredUser(i)]

\* the foreign key by which children of a parent collection are nested
ForeignKey(parent) ==
    CASE parent = "posts"  -> "postId"
      [] parent = "albums" -> "albumId"
      [] parent = "users"  -> "userId"

\* the collection named by a path chunk ("/posts", "/posts/", "/comments", ...)
Segment(chunk) ==
    CASE chunk \in {"/posts", "/posts/"}       -> "posts"
      [] chunk \in {"/comments", "/comments/"} -> "comments"
      [] chunk \in {"/albums", "/albums/"}     -> "albums"
      [] chunk \in {"/photos", "/photos/"}     -> "photos"
      [] chunk \in {"/todos", "/todos/"}       -> "todos"
      [] chunk \in {"/users", "/users/"}       -> "users"

\* the server parses the decimal string of a path back to the id
ParseId(str) == CHOOSE n \in IdArgs : ToString(n) = str

\* the id a request's path names (/posts/{id}, /posts/{id}/comments)
PathId(config) == ParseId(config.url[3])

RequestBody(config) == IF "data" \in DOMAIN config THEN config.data ELSE EmptyObject

Created(posts, body) == body @@ [id |-> Len(posts) + 1]

Replaced(id, body) == [id |-> id] @@ body

Patched(post, body) == [id |-> post.id] @@ body @@ post

\* the stored posts once the write `config` has been applied to them
ApplyWrite(posts, config) ==
    CASE config.method = "POST" -> Append(posts, Created(posts, RequestBody(config)))
      [] config.method = "PUT" ->
            [i \in DOMAIN posts |->
                IF posts[i].id = PathId(config)
                THEN Replaced(posts[i].id, RequestBody(config)) ELSE posts[i]]
      [] config.method = "PATCH" ->
            [i \in DOMAIN posts |->
                IF posts[i].id = PathId(config)
                THEN Patched(posts[i], RequestBody(config)) ELSE posts[i]]
      [] config.method = "DELETE" ->
            SelectSeq(posts, LAMBDA post : post.id # PathId(config))

RECURSIVE ApplyWrites(_, _)
ApplyWrites(posts, writes) ==
    IF writes = <<>> THEN posts
    ELSE ApplyWrites(ApplyWrite(posts, Head(writes)), Tail(writes))

\* the posts the service stores, given the writes it has applied
StoredPosts(writes) == ApplyWrites(InitialPosts, writes)

\* the stored collection a path segment names
Collection(name, writes) ==
    CASE name = "posts"    -> StoredPosts(writes)
      [] name = "comments" -> Comments
      [] name = "albums"   -> Albums
      [] name = "photos"   -> Photos
      [] name = "todos"    -> Todos
      [] name = "users"    -> Users

Matches(item, filter) ==
    \A k \in DOMAIN filter : k \in DOMAIN item /\ item[k] = filter[k]

Filter(items, filter) == SelectSeq(items, LAMBDA item : Matches(item, filter))

Ok(body) == [status |-> 200, statusText |-> "OK", data |-> body]

NotFound == [status |-> 404, statusText |-> "Not Found", data |-> EmptyObject]

ServerError ==
    [status |-> 500, statusText |-> "Internal Server Error", data |-> EmptyObject]

\* The service's response to a request, given the writes it has applied
Respond(config, writes) ==
    LET path == Tail(config.url)
        items == Collection(Segment(path[1]), writes)
        found == SelectSeq(items, LAMBDA item : item.id = PathId(config))
    IN  CASE config.method = "GET" /\ Len(path) = 1 ->
                Ok(Filter(items, IF "params" \in DOMAIN config
                                 THEN config.params ELSE EmptyObject))
          [] config.method = "GET" /\ Len(path) = 2 ->
                IF Len(found) > 0 THEN Ok(found[1]) ELSE NotFound
          [] config.method = "GET" /\ Len(path) = 3 ->
                Ok(Filter(Collection(Segment(path[3]), writes),
                          [k \in {ForeignKey(Segment(path[1]))} |-> PathId(config)]))
          [] config.method = "POST" ->
                [status |-> 201, statusText |-> "Created",
                 data |-> Created(items, RequestBody(config))]
          [] config.method = "PUT" ->
                IF Len(found) > 0
                THEN Ok(Replaced(PathId(config), RequestBody(config)))
                ELSE ServerError
          [] config.method = "PATCH" ->
                IF Len(found) > 0
                THEN Ok(Patched(found[1], RequestBody(config)))
                ELSE Ok(RequestBody(config))
          [] config.method = "DELETE" -> Ok(EmptyObject)

\* Upstream storing the posts it creates
UpstreamStoringCreates(config, writes) ==
    [response |-> Respond(config, writes),
     persisted |-> IF config.method = "POST" THEN Append(writes, config) ELSE writes]

\* Upstream applying the writes it answers
UpstreamPersisting(config, writes) ==
    [response |-> Respond(config, writes),
     persisted |-> IF config.method \in {"POST", "PUT", "PATCH", "DELETE"}
                   THEN Append(writes, config) ELSE writes]

\* The service handles a request: its response, and the writes it has
\* applied afterwards. The mock service applies none.
Upstream(config, writes) ==
    [response |-> Respond(config, writes), persisted |-> writes]

----------------------------------------------------------------------------
(* The transport: how axios settles a request *)

\* axios rejects a response whose status is outside 2xx with an error that
\* carries the response
StatusError(response) ==
    [name |-> "AxiosError",
     message |-> <<"Request failed with status code ", ToString(response.status)>>,
     code |-> IF response.status >= 500 THEN "ERR_BAD_RESPONSE" ELSE "ERR_BAD_REQUEST",
     response |-> response]

\* no response within config.timeout
TimeoutError(config) ==
    [name |-> "AxiosError",
     message |-> <<"timeout of ", ToString(config.timeout), "ms exceeded">>,
     code |-> "ECONNABORTED"]

\* failures without a response that are no timeout
NetworkErrors ==
    {[name |-> "AxiosError", message |-> <<"getaddrinfo ENOTFOUND">>, code |-> "ENOTFOUND"],
     [name |-> "AxiosError", message |-> <<"read ECONNRESET">>, code |-> "ECONNRESET"],
     [name |-> "TypeError", message |-> <<"Invalid URL">>]}

Unavailable ==
    [status |-> 503, statusText |-> "Service Unavailable", data |-> EmptyObject]

----------------------------------------------------------------------------
(* The example workflow: main() of example-usage.ts and the script's catch  *)

\* main before its first call
MainStart ==
    [pc |-> "running", step |-> 0, issued |-> <<>>, responses |-> <<>>,
     result |-> None, stderr |-> <<>>, exitCode |-> 0]

newPost ==
    [title |-> "My Test Post",
     body |-> "This is a test post created by the API client.",
     userId |-> 1]

\* the calls of main's try block, in program order
MainPlan ==
    <<[call |-> [name |-> "getPosts"], ran |-> getPosts],
      [call |-> [name |-> "getPost", id |-> 1], ran |-> getPost(1)],
      [call |-> [name |-> "getPostComments", id |-> 1], ran |-> getPostComments(1)],
      [call |-> [name |-> "getUsers"], ran |-> getUsers],
      [call |-> [name |-> "getTodos", params |-> [userId |-> 1]],
       ran |-> getTodos([userId |-> 1])],
      [call |-> [name |-> "getAlbums"], ran |-> getAlbums],
      [call |-> [name |-> "createPost", postData |-> newPost], ran |-> createPost(newPost)]>>

\* the object main returns
Summary(responses) ==
    [postsCount |-> Len(responses[1].data),
     postTitle |-> responses[2].data.title,
     commentsCount |-> Len(responses[3].data),
     usersCount |-> Len(responses[4].data),
     todosCount |-> Len(responses[5].data),
     albumsCount |-> Len(responses[6].data),
     createdPostId |-> responses[7].data.id]

\* a main that goes on to its next call when a call fails
MainAfterAwaitContinuing(m, settledAs, value) ==
    LET responses == Append(m.responses, value)
    IN  IF m.step + 1 < Len(MainPlan)
        THEN [m EXCEPT !.pc = "running", !.step = @ + 1, !.responses = responses]
        ELSE [m EXCEPT !.pc = "returned", !.step = @ + 1, !.responses = responses,
                       !.result = [createdPostId |-> 0]]

\* main resuming from `await apiClient.method(...)`: it keeps the response
\* and goes on, returning the summary after the last call; a rejection
\* lands in the catch block, which throws
MainAfterAwait(m, settledAs, value) ==
    IF settledAs = "resolved"
    THEN LET responses == Append(m.responses, value)
         IN  IF m.step + 1 < Len(MainPlan)
             THEN [m EXCEPT !.pc = "running", !.step = @ + 1, !.responses = responses]
             ELSE [m EXCEPT !.pc = "returned", !.step = @ + 1,
                            !.responses = responses, !.result = Summary(responses)]
    ELSE [m EXCEPT !.pc = "rejected",
                   !.result = NewError(<<"Example usage failed: ">> \o ErrorToString(value))]

----------------------------------------------------------------------------
(* Initial state: the client has been constructed, no call is running *)

Init ==
    /\ \E args \in CtorArgs :
          /\ ctorArgs = args
          /\ baseUrl = Constructor(args).baseUrl
          /\ timeout = Constructor(args).timeout
    /\ pc = [c \in Callers |-> "idle"]
    /\ op = [c \in Callers |-> None]
    /\ sent = [c \in Callers |-> <<>>]
    /\ outcome = [c \in Callers |-> None]
    /\ result = [c \in Callers |-> None]
    /\ persisted = <<>>
    /\ written = 0
    /\ main = MainStart

----------------------------------------------------------------------------
(* Invocation of an endpoint method by caller c: the method runs up to its  *)
(* throw or up to `await axios(config)` inside makeRequest                  *)

InvokeCall(c, call, ran) ==
    /\ pc[c] = "idle"
    /\ op' = [op EXCEPT ![c] = call]
    /\ IF "throw" \in DOMAIN ran
       THEN /\ pc' = [pc EXCEPT ![c] = "rejected"]
            /\ result' = [result EXCEPT ![c] = ran.throw]
            /\ sent' = sent
       ELSE /\ pc' = [pc EXCEPT ![c] = "pending"]
            /\ result' = result
            /\ sent' = [sent EXCEPT ![c] = Append(@, ran.request)]
    /\ UNCHANGED <<baseUrl, timeout, ctorArgs, outcome, persisted, written>>

\* a caller other than main invokes the method
Invoke(c, call, ran) == InvokeCall(c, call, ran) /\ UNCHANGED main

CallGetPosts(c) == Invoke(c, [name |-> "getPosts"], getPosts)

CallGetAlbums(c) == Invoke(c, [name |-> "getAlbums"], getAlbums)

CallGetUsers(c) == Invoke(c, [name |-> "getUsers"], getUsers)

CallGetPost(c) ==
    \E id \in IdArgs : Invoke(c, [name |-> "getPost", id |-> id], getPost(id))

CallGetPostComments(c) ==
    \E id \in IdArgs : Invoke(c, [name |-> "getPostComments", id |-> id], getPostComments(id))

CallDeletePost(c) ==
    \E id \in IdArgs : Invoke(c, [name |-> "deletePost", id |-> id], deletePost(id))

CallGetComment(c) ==
    \E id \in IdArgs : Invoke(c, [name |-> "getComment", id |-> id], getComment(id))

CallGetAlbum(c) ==
    \E id \in IdArgs : Invoke(c, [name |-> "getAlbum", id |-> id], getAlbum(id))

CallGetAlbumPhotos(c) ==
    \E id \in IdArgs : Invoke(c, [name |-> "getAlbumPhotos", id |-> id], getAlbumPhotos(id))

CallGetPhoto(c) ==
    \E id \in IdArgs : Invoke(c, [name |-> "getPhoto", id |-> id], getPhoto(id))

CallGetTodo(c) ==
    \E id \in IdArgs : Invoke(c, [name |-> "getTodo", id |-> id], getTodo(id))

CallGetUser(c) ==
    \E id \in IdArgs : Invoke(c, [name |-> "getUser", id |-> id], getUser(id))

CallGetUserPosts(c) ==
    \E id \in IdArgs : Invoke(c, [name |-> "getUserPosts", id |-> id], getUserPosts(id))

CallGetUserTodos(c) ==
    \E id \in IdArgs : Invoke(c, [name |-> "getUserTodos", id |-> id], getUserTodos(id))

CallGetUserAlbums(c) ==
    \E id \in IdArgs : Invoke(c, [name |-> "getUserAlbums", id |-> id], getUserAlbums(id))

CallCreatePost(c) ==
    \E postData \in CreateArgs :
        Invoke(c, [name |-> "createPost", postData |-> postData], createPost(postData))

CallUpdatePost(c) ==
    \E id \in IdArgs, postData \in UpdateArgs :
        Invoke(c, [name |-> "updatePost", id |-> id, postData |-> postData],
               updatePost(id, postData))

CallPatchPost(c) ==
    \E id \in IdArgs, postData \in UpdateArgs :
        Invoke(c, [name |-> "patchPost", id |-> id, postData |-> postData],
               patchPost(id, postData))

CallGetComments(c) ==
    \E params \in CommentFilters :
        Invoke(c, [name |-> "getComments", params |-> params], getComments(params))

CallGetPhotos(c) ==
    \E params \in PhotoFilters :
        Invoke(c, [name |-> "getPhotos", params |-> params], getPhotos(params))

CallGetTodos(c) ==
    \E params \in TodoFilters :
        Invoke(c, [name |-> "getTodos", params |-> params], getTodos(params))

----------------------------------------------------------------------------
(* Settlement: axios settles the pending request of caller c and            *)
(* makeRequest runs to its return or throw                                  *)

\* A settled promise's reactions (the rest of makeRequest, of the endpoint
\* method and of the caller awaiting it) are microtasks: they run before the
\* event loop delivers the next network event.
MicrotasksQueued == \E c \in DOMAIN pc : pc[c] \in {"resolved", "rejected"}

\* a request settling with the config of another pending call, if there is one
PendingConfigAny(c) ==
    LET others == {d \in DOMAIN pc \ {c} : pc[d] = "pending"}
    IN  IF others = {} THEN sent[c][Len(sent[c])]
        ELSE LET d == CHOOSE d \in others : TRUE IN sent[d][Len(sent[d])]

\* the config of the request caller c awaits: the local `config` of its call
PendingConfig(c) == sent[c][Len(sent[c])]

\* AfterAwait swallowing a failure and returning an empty success envelope
AfterAwaitFallback(settled) ==
    IF "response" \in DOMAIN settled
    THEN [pc |-> "resolved", value |-> OnResponse(settled.response)]
    ELSE [pc |-> "resolved",
          value |-> [data |-> EmptyObject, status |-> 200, statusText |-> "OK"]]

\* a catch block that issues the request again after a timeout
AfterAwaitRetry(settled) ==
    IF "response" \in DOMAIN settled
    THEN [pc |-> "resolved", value |-> OnResponse(settled.response)]
    ELSE IF "code" \in DOMAIN settled.error /\ settled.error.code = "ECONNABORTED"
    THEN [pc |-> "pending", value |-> None]
    ELSE [pc |-> "rejected", value |-> OnError(settled.error)]

\* makeRequest from the settlement of `await axios(config)` on: the try
\* block returns the envelope, the catch block throws
AfterAwait(settled) ==
    IF "response" \in DOMAIN settled
    THEN [pc |-> "resolved", value |-> OnResponse(settled.response)]
    ELSE [pc |-> "rejected", value |-> OnError(settled.error)]

IsWrite(config) == config.method \in {"POST", "PUT", "PATCH", "DELETE"}

Settle(c, settled, writes) ==
    \E after \in {AfterAwait(settled)} :
        /\ outcome' = [outcome EXCEPT ![c] = settled]
        /\ pc' = [pc EXCEPT ![c] = after.pc]
        /\ result' = [result EXCEPT ![c] = after.value]
        /\ persisted' = writes
        /\ UNCHANGED <<baseUrl, timeout, ctorArgs, op, sent, written, main>>

\* the statuses `await axios(config)` resolves for; any other status makes it
\* throw an error carrying the response (the config sets no validateStatus)
ValidateStatus(status) == status >= 200 /\ status < 300

\* the upstream service answers the request
AxiosAnswered(c) ==
    /\ pc[c] = "pending"
    /\ ~MicrotasksQueued
    /\ \E up \in {Upstream(PendingConfig(c), persisted)} :
          IF ValidateStatus(up.response.status)
          THEN Settle(c, [cause |-> "answer", response |-> up.response], up.persisted)
          ELSE Settle(c, [cause |-> "answer", error |-> StatusError(up.response)],
                      up.persisted)

\* the service is unavailable and answers with an error status
AxiosUnavailable(c) ==
    /\ pc[c] = "pending"
    /\ ~MicrotasksQueued
    /\ Settle(c, [cause |-> "unavailable", error |-> StatusError(Unavailable)], persisted)

\* no response arrives within the request's timeout
AxiosTimeout(c) ==
    /\ pc[c] = "pending"
    /\ ~MicrotasksQueued
    /\ \E config \in {PendingConfig(c)} :
          /\ config.timeout > 0
          /\ Settle(c, [cause |-> "timeout", error |-> TimeoutError(config)], persisted)

\* the transport fails without a response
AxiosFailed(c) ==
    /\ pc[c] = "pending"
    /\ ~MicrotasksQueued
    /\ \E error \in NetworkErrors :
          Settle(c, [cause |-> "failure", error |-> error], persisted)

\* the caller has received the outcome of its call and may call again
ReturnCall(c) ==
    /\ pc[c] \in {"resolved", "rejected"}
    /\ pc' = [pc EXCEPT ![c] = "idle"]
    /\ op' = [op EXCEPT ![c] = None]
    /\ sent' = [sent EXCEPT ![c] = <<>>]
    /\ outcome' = [outcome EXCEPT ![c] = None]
    /\ result' = [result EXCEPT ![c] = None]
    /\ written' = IF pc[c] = "resolved" /\ IsWrite(sent[c][1]) /\ written < MaxWrites
                  THEN written + 1 ELSE written
    /\ UNCHANGED <<baseUrl, timeout, ctorArgs, persisted>>

\* a caller other than main resumes
Return(c) == ReturnCall(c) /\ UNCHANGED main

Next ==
    \E c \in Callers :
        \/ CallGetPosts(c)
        \/ CallGetPost(c)
        \/ CallGetPostComments(c)
        \/ CallCreatePost(c)
        \/ CallUpdatePost(c)
        \/ CallPatchPost(c)
        \/ CallDeletePost(c)
        \/ CallGetComments(c)
        \/ CallGetComment(c)
        \/ CallGetAlbums(c)
        \/ CallGetAlbum(c)
        \/ CallGetAlbumPhotos(c)
        \/ CallGetPhotos(c)
        \/ CallGetPhoto(c)
        \/ CallGetTodos(c)
        \/ CallGetTodo(c)
        \/ CallGetUsers(c)
        \/ CallGetUser(c)
        \/ CallGetUserPosts(c)
        \/ CallGetUserTodos(c)
        \/ CallGetUserAlbums(c)
        \/ AxiosAnswered(c)
        \/ AxiosUnavailable(c)
        \/ AxiosTimeout(c)
        \/ AxiosFailed(c)
        \/ Return(c)

Spec == Init /\ [][Next]_vars

----------------------------------------------------------------------------
(* Several callers sharing one client instance, their calls overlapping in  *)
(* every interleaving: a read that validates, a filtered list and a write   *)

NumShared == 2

SharedCallers == 1..NumShared

SharedInit ==
    /\ \E args \in CtorArgs :
          /\ ctorArgs = args
          /\ baseUrl = Constructor(args).baseUrl
          /\ timeout = Constructor(args).timeout
    /\ pc = [c \in SharedCallers |-> "idle"]
    /\ op = [c \in SharedCallers |-> None]
    /\ sent = [c \in SharedCallers |-> <<>>]
    /\ outcome = [c \in SharedCallers |-> None]
    /\ result = [c \in SharedCallers |-> None]
    /\ persisted = <<>>
    /\ written = 0
    /\ main = MainStart

SharedNext ==
    \E c \in SharedCallers :
        \/ CallGetPost(c)
        \/ CallGetComments(c)
        \/ CallDeletePost(c)
        \/ AxiosAnswered(c)
        \/ AxiosUnavailable(c)
        \/ AxiosTimeout(c)
        \/ AxiosFailed(c)
        \/ Return(c)

SharedSpec == SharedInit /\ [][SharedNext]_vars

----------------------------------------------------------------------------
(* The catch block of makeRequest over the error objects `await axios`      *)
(* can throw: `error` is typed any, so it may carry a response, a code,     *)
(* both or neither                                                          *)

RequestTimeout ==
    [status |-> 408, statusText |-> "Request Timeout", data |-> EmptyObject]

ThrownErrors(config) ==
    NetworkErrors
    \cup {StatusError(NotFound), StatusError(Unavailable), TimeoutError(config),
          [name |-> "AxiosError",
           message |-> <<"timeout of ", ToString(config.timeout), "ms exceeded">>,
           code |-> "ECONNABORTED", response |-> RequestTimeout],
          [name |-> "Error", message |-> <<"socket hang up">>, response |-> ServerError]}

\* `await axios(config)` throws one of these errors into the catch block
AxiosThrew(c) ==
    /\ pc[c] = "pending"
    /\ ~MicrotasksQueued
    /\ \E error \in ThrownErrors(PendingConfig(c)) :
          Settle(c, [cause |-> "thrown", error |-> error], persisted)

CatchNext ==
    \E c \in Callers :
        \/ CallGetPost(c)
        \/ CallCreatePost(c)
        \/ CallDeletePost(c)
        \/ CallGetTodos(c)
        \/ AxiosAnswered(c)
        \/ AxiosThrew(c)
        \/ Return(c)

CatchSpec == Init /\ [][CatchNext]_vars

----------------------------------------------------------------------------
(* makeRequest over the statuses a service at the configured base URL can   *)
(* answer with: successes, 3xx answers that are not followed (300, 304),    *)
(* client and server errors                                                 *)

Statuses == {200, 204, 299, 300, 304, 399, 400, 404, 500}

StatusText(status) ==
    CASE status < 300 -> "OK"
      [] status < 400 -> "Not Modified"
      [] OTHER        -> "Error"

StatusResponses ==
    {[status |-> s, statusText |-> StatusText(s), data |-> EmptyObject] : s \in Statuses}

\* a response with one of these statuses arrives
AxiosResponded(c) ==
    /\ pc[c] = "pending"
    /\ ~MicrotasksQueued
    /\ \E response \in StatusResponses :
          IF ValidateStatus(response.status)
          THEN Settle(c, [cause |-> "status", response |-> response], persisted)
          ELSE Settle(c, [cause |-> "status", error |-> StatusError(response)], persisted)

StatusNext ==
    \E c \in Callers :
        \/ CallGetPost(c)
        \/ CallGetTodos(c)
        \/ CallDeletePost(c)
        \/ AxiosResponded(c)
        \/ Return(c)

StatusSpec == Init /\ [][StatusNext]_vars

----------------------------------------------------------------------------
(* The script example-usage.ts run directly: main() on a client of its own, *)
(* constructed with the defaults, one call at a time                        *)

MainCaller == CHOOSE c \in Callers : TRUE

MainInit ==
    /\ ctorArgs = EmptyObject
    /\ baseUrl = Constructor(EmptyObject).baseUrl
    /\ timeout = Constructor(EmptyObject).timeout
    /\ pc = [c \in Callers |-> "idle"]
    /\ op = [c \in Callers |-> None]
    /\ sent = [c \in Callers |-> <<>>]
    /\ outcome = [c \in Callers |-> None]
    /\ result = [c \in Callers |-> None]
    /\ persisted = <<>>
    /\ written = 0
    /\ main = MainStart

\* main invokes its next method and awaits it
MainCall ==
    /\ main.pc = "running"
    /\ \E next \in {MainPlan[main.step + 1]} :
          /\ InvokeCall(MainCaller, next.call, next.ran)
          /\ main' = [main EXCEPT !.pc = "awaiting", !.issued = Append(@, next.call)]

\* the awaited call has completed and main resumes
MainResume ==
    /\ main.pc = "awaiting"
    /\ ReturnCall(MainCaller)
    /\ main' = MainAfterAwait(main, pc[MainCaller], result[MainCaller])

\* main().catch of the script: the error goes to stderr, the process exits 1
MainExit ==
    /\ main.pc = "rejected"
    /\ main' = [main EXCEPT !.pc = "exited",
                            !.stderr = <<"Error: ">> \o ErrorToString(main.result)
                                           \o <<"\n">>,
                            !.exitCode = 1]
    /\ UNCHANGED <<baseUrl, timeout, pc, op, sent, outcome, result, persisted,
                   ctorArgs, written>>

MainNext ==
    \/ MainCall
    \/ AxiosAnswered(MainCaller)
    \/ AxiosUnavailable(MainCaller)
    \/ AxiosTimeout(MainCaller)
    \/ AxiosFailed(MainCaller)
    \/ MainResume
    \/ MainExit

MainSpec == MainInit /\ [][MainNext]_vars

----------------------------------------------------------------------------
(* Calls under a transport that eventually delivers, for every request it   *)
(* holds, a response, a failure or the timeout, and an event loop that      *)
(* runs the continuation of every completed call                            *)

\* the transport settles the request of caller c
Delivered(c) ==
    \/ AxiosAnswered(c)
    \/ AxiosUnavailable(c)
    \/ AxiosTimeout(c)
    \/ AxiosFailed(c)

LiveNext ==
    \E c \in Callers :
        \/ CallGetPost(c)
        \/ CallDeletePost(c)
        \/ Delivered(c)
        \/ Return(c)

LiveSpec ==
    /\ Init
    /\ [][LiveNext]_vars
    /\ \A c \in Callers : SF_vars(Delivered(c)) /\ WF_vars(Return(c))

----------------------------------------------------------------------------
(* Properties *)

Called(c, name) == "name" \in DOMAIN op[c] /\ op[c].name = name

Completed(c) == pc[c] \in {"resolved", "rejected"}

Settled(c) == "cause" \in DOMAIN outcome[c]

IsError(value) == DOMAIN value = {"name", "message"}

IsEnvelope(value) == DOMAIN value = {"data", "status", "statusText"}

\* the timeout the client was constructed with: the one passed, else 10000
ConstructionTimeout == IF "timeout" \in DOMAIN ctorArgs THEN ctorArgs.timeout ELSE 10000

\* a createPost argument whose title or body is missing or empty
LacksTitleOrBody(postData) ==
    \/ "title" \notin DOMAIN postData
    \/ "body" \notin DOMAIN postData
    \/ postData.title = ""
    \/ postData.body = ""

\* the call of caller c fails its method's client-side validation
FailsValidation(c) ==
    \/ Called(c, "getPost") /\ op[c].id <= 0
    \/ Called(c, "createPost") /\ LacksTitleOrBody(op[c].postData)

\* C1: getPost(id) with id <= 0 (0 included) rejects with 'Post ID must be
\* positive' and has issued no request; with id > 0 it issues one
\* GET /posts/{id}.
C1_GetPostValidation ==
    \A c \in Callers :
        Called(c, "getPost") =>
            IF op[c].id <= 0
            THEN /\ pc[c] = "rejected"
                 /\ result[c] = [name |-> "Error", message |-> <<"Post ID must be positive">>]
                 /\ sent[c] = <<>>
            ELSE /\ Len(sent[c]) = 1
                 /\ sent[c][1].method = "GET"
                 /\ sent[c][1].url = <<baseUrl, "/posts/", ToString(op[c].id)>>

C1_Witness ==
    \E c \in Callers : Called(c, "getPost") /\ op[c].id = 0 /\ pc[c] = "rejected"

\* C2: createPost whose title or body is empty or missing rejects with
\* 'Title and body are required', whatever the userId, and issues no request.
C2_CreatePostValidation ==
    \A c \in Callers :
        Called(c, "createPost") /\ LacksTitleOrBody(op[c].postData) =>
            /\ pc[c] = "rejected"
            /\ result[c] = [name |-> "Error", message |-> <<"Title and body are required">>]
            /\ sent[c] = <<>>
            /\ ~Settled(c)

C2_Witness ==
    \E c \in Callers :
        /\ Called(c, "createPost")
        /\ "title" \in DOMAIN op[c].postData /\ op[c].postData.title = "T"
        /\ "body" \in DOMAIN op[c].postData /\ op[c].postData.body = ""
        /\ pc[c] = "rejected"

\* C3: createPost with non-empty title and body issues one POST /posts that
\* carries exactly the given object; when the upstream answers it, the call
\* resolves with status 201 and data echoing title, body and userId.
C3_CreatePostEcho ==
    \A c \in Callers :
        Called(c, "createPost") /\ ~LacksTitleOrBody(op[c].postData) =>
            /\ Len(sent[c]) = 1
            /\ sent[c][1].method = "POST"
            /\ sent[c][1].url = <<baseUrl, "/posts">>
            /\ "data" \in DOMAIN sent[c][1]
            /\ sent[c][1].data = op[c].postData
            /\ (Settled(c) /\ outcome[c].cause = "answer" =>
                    /\ pc[c] = "resolved"
                    /\ result[c].status = 201
                    /\ result[c].data.title = op[c].postData.title
                    /\ result[c].data.body = op[c].postData.body
                    /\ result[c].data.userId = op[c].postData.userId)

C3_Witness ==
    \E c \in Callers :
        /\ Called(c, "createPost") /\ pc[c] = "resolved"
        /\ op[c].postData.userId = 2
        /\ result[c].data.userId = 2

C5_Original == \A c \in Callers : Completed(c) => Len(sent[c]) = 1

\* C5 amended: a call never issues more than one request; a completed call
\* has issued exactly one, except getPost(id <= 0) and createPost without
\* title or body, which have issued none.
C5_OneRequestUnlessInvalid ==
    \A c \in Callers :
        /\ Len(sent[c]) <= 1
        /\ pc[c] = "pending" => Len(sent[c]) = 1
        /\ Completed(c) => Len(sent[c]) = (IF FailsValidation(c) THEN 0 ELSE 1)

C5_Witness ==
    \E c \in Callers :
        Called(c, "getUserAlbums") /\ Completed(c) /\ Len(sent[c]) = 1

\* C6: when the request of a call fails (error status, timeout, other
\* transport failure) the call rejects with an error, never resolves with an
\* envelope, and has issued no second request.
C6_FailuresReject ==
    \A c \in Callers :
        Settled(c) /\ "error" \in DOMAIN outcome[c] =>
            /\ pc[c] = "rejected"
            /\ IsError(result[c])
            /\ ~IsEnvelope(result[c])
            /\ Len(sent[c]) = 1

C6_Witness ==
    \E c \in Callers :
        /\ Settled(c) /\ outcome[c].cause = "unavailable"
        /\ pc[c] = "rejected" /\ Called(c, "getAlbums")

\* C7: when the transport error carries a response, the call rejects with
\* 'API request failed: <transport message> - Status: <status>', the status
\* being the one of that response.
C7_RemoteRejectionMessage ==
    \A c \in Callers :
        Settled(c) /\ "error" \in DOMAIN outcome[c]
                   /\ "response" \in DOMAIN outcome[c].error =>
            /\ pc[c] = "rejected"
            /\ result[c].message =
                  <<"API request failed: ">> \o outcome[c].error.message
                      \o <<" - Status: ", ToString(outcome[c].error.response.status)>>

C7_Witness ==
    \E c \in Callers :
        /\ Called(c, "getPost") /\ op[c].id = 999 /\ pc[c] = "rejected"
        /\ Settled(c) /\ outcome[c].cause = "answer"
        /\ outcome[c].error.response.status = 404

\* C8: when no response arrives within the timeout, the call rejects with
\* 'Request timed out after <T>ms', T being the timeout the client was
\* constructed with (10000 when defaulted), for every endpoint method.
C8_TimeoutMessage ==
    \A c \in Callers :
        Settled(c) /\ outcome[c].cause = "timeout" =>
            /\ pc[c] = "rejected"
            /\ result[c].message =
                  <<"Request timed out after ", ToString(ConstructionTimeout), "ms">>

C8_Witness ==
    \E c \in Callers :
        /\ Settled(c) /\ outcome[c].cause = "timeout" /\ pc[c] = "rejected"
        /\ "timeout" \in DOMAIN ctorArgs /\ ctorArgs.timeout # 10000
        /\ Called(c, "getTodos")

\* C9: when the transport fails without a response and without being a
\* timeout, the call rejects with 'Unexpected error: <cause>' and with neither
\* of the other two message templates.
C9_UnexpectedErrorMessage ==
    \A c \in Callers :
        Settled(c) /\ outcome[c].cause = "failure" =>
            /\ pc[c] = "rejected"
            /\ result[c].message =
                  <<"Unexpected error: ", outcome[c].error.name, ": ">>
                      \o outcome[c].error.message
            /\ result[c].message[1] \notin {"API request failed: ", "Request timed out after "}

C9_Witness ==
    \E c \in Callers :
        /\ Settled(c) /\ outcome[c].cause = "failure" /\ pc[c] = "rejected"
        /\ outcome[c].error.name = "TypeError"

\* C10: on a successful response the envelope's data, status and statusText
\* are the body, status code and status text of that response, unmodified
\* (201 stays 201 for create, {} stays {} for delete).
C10_EnvelopeIsResponse ==
    \A c \in Callers :
        Settled(c) /\ "response" \in DOMAIN outcome[c] =>
            /\ pc[c] = "resolved"
            /\ IsEnvelope(result[c])
            /\ result[c].data = outcome[c].response.data
            /\ result[c].status = outcome[c].response.status
            /\ result[c].statusText = outcome[c].response.statusText

C10_Witness ==
    \E c \in Callers :
        /\ Called(c, "deletePost") /\ pc[c] = "resolved"
        /\ result[c].data = EmptyObject /\ result[c].status = 200

\* the base URL the client was constructed with: the one passed, else the
\* public mock service root
ConstructionBaseUrl ==
    IF "baseUrl" \in DOMAIN ctorArgs THEN ctorArgs.baseUrl
    ELSE "https://jsonplaceholder.typicode.com"

\* the verb of each method in the endpoint table
TableVerb(name) ==
    CASE name = "createPost" -> "POST"
      [] name = "updatePost" -> "PUT"
      [] name = "patchPost"  -> "PATCH"
      [] name = "deletePost" -> "DELETE"
      [] OTHER               -> "GET"

\* the path of each call in the endpoint table, the id being the argument
TablePath(call) ==
    CASE call.name = "getPosts"        -> <<"/posts">>
      [] call.name = "getPost"         -> <<"/posts/", ToString(call.id)>>
      [] call.name = "getPostComments" -> <<"/posts/", ToString(call.id), "/comments">>
      [] call.name = "createPost"      -> <<"/posts">>
      [] call.name = "updatePost"      -> <<"/posts/", ToString(call.id)>>
      [] call.name = "patchPost"       -> <<"/posts/", ToString(call.id)>>
      [] call.name = "deletePost"      -> <<"/posts/", ToString(call.id)>>
      [] call.name = "getComments"     -> <<"/comments">>
      [] call.name = "getComment"      -> <<"/comments/", ToString(call.id)>>
      [] call.name = "getAlbums"       -> <<"/albums">>
      [] call.name = "getAlbum"        -> <<"/albums/", ToString(call.id)>>
      [] call.name = "getAlbumPhotos"  -> <<"/albums/", ToString(call.id), "/photos">>
      [] call.name = "getPhotos"       -> <<"/photos">>
      [] call.name = "getPhoto"        -> <<"/photos/", ToString(call.id)>>
      [] call.name = "getTodos"        -> <<"/todos">>
      [] call.name = "getTodo"         -> <<"/todos/", ToString(call.id)>>
      [] call.name = "getUsers"        -> <<"/users">>
      [] call.name = "getUser"         -> <<"/users/", ToString(call.id)>>
      [] call.name = "getUserPosts"    -> <<"/users/", ToString(call.id), "/posts">>
      [] call.name = "getUserTodos"    -> <<"/users/", ToString(call.id), "/todos">>
      [] call.name = "getUserAlbums"   -> <<"/users/", ToString(call.id), "/albums">>

\* C11: every request is issued with the verb and path of the endpoint
\* table, the URL being the construction base URL followed by that path and
\* the id in the path being the argument passed.
C11_VerbAndPath ==
    \A c \in Callers :
        \A i \in DOMAIN sent[c] :
            /\ sent[c][i].method = TableVerb(op[c].name)
            /\ sent[c][i].url = <<ConstructionBaseUrl>> \o TablePath(op[c])

C11_Witness ==
    \E c \in Callers :
        /\ Called(c, "patchPost") /\ op[c].id = 999 /\ Len(sent[c]) = 1
        /\ sent[c][1].method = "PATCH"
        /\ sent[c][1].url = <<"http://localhost:3000", "/posts/", "999">>

\* the methods that take an object to send
BodyMethods == {"createPost", "updatePost", "patchPost"}

\* C12: a request carries a body if and only if the caller provided one: the
\* requests of createPost, updatePost and patchPost carry exactly the object
\* passed, an empty object included, and the requests of every other method
\* (GET and DELETE) carry none.
C12_BodyIffProvided ==
    \A c \in Callers :
        \A i \in DOMAIN sent[c] :
            IF op[c].name \in BodyMethods
            THEN /\ "data" \in DOMAIN sent[c][i]
                 /\ sent[c][i].data = op[c].postData
            ELSE /\ "data" \notin DOMAIN sent[c][i]
                 /\ sent[c][i].method \in {"GET", "DELETE"}

C12_Witness ==
    \E c \in Callers :
        /\ Called(c, "patchPost") /\ op[c].postData = EmptyObject
        /\ Len(sent[c]) = 1
        /\ "data" \in DOMAIN sent[c][1] /\ sent[c][1].data = EmptyObject

\* the methods that take an optional filter
FilterMethods == {"getComments", "getPhotos", "getTodos"}

\* C13: query parameters are attached only by getComments, getPhotos and
\* getTodos and only when a filter argument is given; they are then exactly
\* the filter's fields and values (a false `completed` included); any other
\* request carries no query parameters.
C13_ParamsIffFilter ==
    \A c \in Callers :
        \A i \in DOMAIN sent[c] :
            IF op[c].name \in FilterMethods /\ op[c].params # Undefined
            THEN /\ "params" \in DOMAIN sent[c][i]
                 /\ sent[c][i].params = op[c].params
            ELSE "params" \notin DOMAIN sent[c][i]

C13_Witness ==
    \E c \in Callers :
        /\ Called(c, "getTodos") /\ Len(sent[c]) = 1
        /\ op[c].params = [userId |-> 1, completed |-> FALSE]
        /\ sent[c][1].params = [userId |-> 1, completed |-> FALSE]

\* the two methods that validate their argument before any request
ValidatingMethods == {"getPost", "createPost"}

\* C14: a method other than getPost and createPost validates nothing: for
\* every argument its request is issued, and the call completes only when
\* that request has settled, resolving with the envelope of the response
\* received or rejecting with the error built from the failure received.
C14_NoOtherValidation ==
    \A c \in Callers :
        op[c] # None /\ op[c].name \notin ValidatingMethods =>
            /\ Len(sent[c]) = 1
            /\ Completed(c) =>
                  /\ Settled(c)
                  /\ IF "response" \in DOMAIN outcome[c]
                     THEN /\ pc[c] = "resolved"
                          /\ result[c] =
                                [data |-> outcome[c].response.data,
                                 status |-> outcome[c].response.status,
                                 statusText |-> outcome[c].response.statusText]
                     ELSE /\ pc[c] = "rejected"
                          /\ result[c] = OnError(outcome[c].error)

C14_Witness ==
    \E c \in Callers :
        /\ Called(c, "getTodo") /\ op[c].id = -1
        /\ Len(sent[c]) = 1 /\ pc[c] = "rejected"
        /\ outcome[c].cause = "answer"
        /\ outcome[c].error.response.status = 404

\* the call of caller c has completed with the outcome of its own request:
\* an answer is the upstream's answer to the request c issued, a timeout is
\* that of c's request, and c's result is built from that outcome alone
OwnOutcome(c) ==
    /\ Len(sent[c]) = 1
    /\ \/ /\ outcome[c].cause = "answer"
          /\ \E own \in {Respond(sent[c][1], persisted)} :
                IF "response" \in DOMAIN outcome[c]
                THEN outcome[c].response = own
                ELSE outcome[c].error = StatusError(own)
       \/ /\ outcome[c].cause = "timeout"
          /\ outcome[c].error = TimeoutError(sent[c][1])
       \/ /\ outcome[c].cause = "unavailable"
          /\ outcome[c].error = StatusError(Unavailable)
       \/ /\ outcome[c].cause = "failure"
          /\ outcome[c].error \in NetworkErrors
    /\ result[c] = AfterAwait(outcome[c]).value
    /\ pc[c] = AfterAwait(outcome[c]).pc

\* a step of caller c leaves the call of every other caller as it was
LeavesOthers(c) ==
    \A d \in SharedCallers \ {c} :
        /\ pc'[d] = pc[d]
        /\ op'[d] = op[d]
        /\ sent'[d] = sent[d]
        /\ outcome'[d] = outcome[d]
        /\ result'[d] = result[d]

\* C15: when callers share one client and their calls overlap in any
\* interleaving, every call completes with the outcome of its own request
\* only, and a step of one call (its failure included) changes nothing of
\* any other call.
C15_CallsIndependent ==
    /\ [](\A c \in SharedCallers : Settled(c) => OwnOutcome(c))
    /\ [][\A c \in SharedCallers : pc'[c] # pc[c] => LeavesOthers(c)]_vars

C15_Witness ==
    \E c \in SharedCallers, d \in SharedCallers :
        /\ c # d
        /\ Called(c, "getPost") /\ op[c].id = 1
        /\ Called(d, "getPost") /\ op[d].id = 999 /\ pc[d] = "pending"
        /\ pc[c] = "resolved" /\ result[c].data.id = 1

\* C16: the base URL and the timeout are those of the construction (by
\* default the public mock service root and 10000 ms) in every state, no
\* call, successful or failed, changing them, and every request issued
\* carries exactly these two values.
C16_ConstructionFixed ==
    /\ baseUrl = ConstructionBaseUrl
    /\ timeout = ConstructionTimeout
    /\ \A c \in Callers :
          \A i \in DOMAIN sent[c] :
              /\ Head(sent[c][i].url) = ConstructionBaseUrl
              /\ sent[c][i].timeout = ConstructionTimeout

C16_Witness ==
    \E c \in Callers :
        /\ ctorArgs = [baseUrl |-> "http://localhost:3000", timeout |-> 5000]
        /\ pc[c] = "rejected" /\ Settled(c) /\ outcome[c].cause = "timeout"
        /\ timeout = 5000 /\ baseUrl = "http://localhost:3000"
        /\ sent[c][1].timeout = 5000

\* the get-by-id methods
GetByIdMethods == {"getPost", "getComment", "getAlbum", "getPhoto", "getTodo", "getUser"}

\* the number of stored objects of the resource a get-by-id method reads,
\* whose ids are 1..KnownRange
KnownRange(name) ==
    CASE name = "getPost"    -> PostCount
      [] name = "getComment" -> CommentCount
      [] name = "getAlbum"   -> AlbumCount
      [] name = "getPhoto"   -> PhotoCount
      [] name = "getTodo"    -> TodoCount
      [] name = "getUser"    -> UserCount

\* C17: for every resource and every id within the resource's known range,
\* the get-by-id call the upstream answers resolves with status 200 and an
\* object whose id is the requested id.
C17_GetByIdInRange ==
    \A c \in Callers :
        /\ op[c] # None /\ op[c].name \in GetByIdMethods
        /\ op[c].id \in 1..KnownRange(op[c].name)
        /\ Settled(c) /\ outcome[c].cause = "answer"
        => /\ pc[c] = "resolved"
           /\ result[c].status = 200
           /\ result[c].data.id = op[c].id

C17_Witness ==
    \E c \in Callers :
        /\ Called(c, "getPhoto") /\ op[c].id = 999
        /\ pc[c] = "resolved" /\ result[c].status = 200
        /\ result[c].data.id = 999 /\ result[c].data.albumId = 20

\* the foreign key a filterable list is filtered by
ParentKey(name) ==
    CASE name = "getComments" -> "postId"
      [] name = "getPhotos"   -> "albumId"
      [] name = "getTodos"    -> "userId"

\* the number of parents there are: posts, albums, users
ParentCount(name) ==
    CASE name = "getComments" -> PostCount
      [] name = "getPhotos"   -> AlbumCount
      [] name = "getTodos"    -> UserCount

\* the fixed number of children of one parent
ChildrenPerParent(name) ==
    CASE name = "getComments" -> 5
      [] name = "getPhotos"   -> 50
      [] name = "getTodos"    -> 20

\* caller c called a filterable list with the key of an existing parent as
\* its only filter, and the upstream answered
FilteredByParent(c) ==
    /\ op[c] # None /\ op[c].name \in FilterMethods
    /\ op[c].params # Undefined
    /\ DOMAIN op[c].params = {ParentKey(op[c].name)}
    /\ op[c].params[ParentKey(op[c].name)] \in 1..ParentCount(op[c].name)
    /\ Settled(c) /\ outcome[c].cause = "answer"

\* C18: getComments({postId}), getPhotos({albumId}) and getTodos({userId})
\* with the key of an existing parent resolve with only children whose
\* foreign key is that key, as many as one parent has: 5 comments, 50
\* photos, 20 todos.
C18_FilteredByParentKey ==
    \A c \in Callers :
        FilteredByParent(c) =>
            /\ pc[c] = "resolved"
            /\ Len(result[c].data) = ChildrenPerParent(op[c].name)
            /\ \A i \in DOMAIN result[c].data :
                  result[c].data[i][ParentKey(op[c].name)]
                      = op[c].params[ParentKey(op[c].name)]

C18_Witness ==
    \E c \in Callers :
        /\ Called(c, "getPhotos") /\ op[c].params = [albumId |-> 1]
        /\ pc[c] = "resolved" /\ Len(result[c].data) = 50
        /\ result[c].data[50].albumId = 1

\* the nested-list methods
NestedMethods ==
    {"getPostComments", "getAlbumPhotos", "getUserPosts", "getUserTodos", "getUserAlbums"}

\* the elements of a list
Range(list) == {list[i] : i \in DOMAIN list}

\* what the corresponding top-level list call of the client returns,
\* restricted to the parent key of a nested call: the filtered call where
\* the method takes a filter, else the whole list filtered by the caller
TopLevelRestricted(call) ==
    CASE call.name = "getPostComments" ->
            Respond(getComments([postId |-> call.id]).request, persisted).data
      [] call.name = "getAlbumPhotos" ->
            Respond(getPhotos([albumId |-> call.id]).request, persisted).data
      [] call.name = "getUserTodos" ->
            Respond(getTodos([userId |-> call.id]).request, persisted).data
      [] call.name = "getUserPosts" ->
            Filter(Respond(getPosts.request, persisted).data, [userId |-> call.id])
      [] call.name = "getUserAlbums" ->
            Filter(Respond(getAlbums.request, persisted).data, [userId |-> call.id])

\* C19: for every parent id, a nested-list call the upstream answers
\* resolves with a set equal to the corresponding top-level list restricted
\* to that parent key.
C19_NestedEqualsFiltered ==
    \A c \in Callers :
        /\ op[c] # None /\ op[c].name \in NestedMethods
        /\ Settled(c) /\ outcome[c].cause = "answer"
        => /\ pc[c] = "resolved"
           /\ Range(result[c].data) = Range(TopLevelRestricted(op[c]))

C19_Witness ==
    \E c \in Callers :
        /\ Called(c, "getUserTodos") /\ op[c].id = 1
        /\ pc[c] = "resolved" /\ Len(result[c].data) = 20
        /\ Range(result[c].data) = Range(TopLevelRestricted(op[c]))

\* what getTodos returns for a filter when the upstream answers
TodosOf(filter) == Range(Respond(getTodos(filter).request, persisted).data)

\* C20: for a user u, getTodos({userId: u, completed: b}) resolves with only
\* todos of u whose completed is b; the results for b = true and b = false
\* are disjoint and together are exactly the 20 todos of getTodos({userId: u}).
C20_CompletedPartition ==
    \A c \in Callers :
        /\ Called(c, "getTodos") /\ op[c].params # Undefined
        /\ DOMAIN op[c].params = {"userId", "completed"}
        /\ op[c].params.userId \in 1..UserCount
        /\ Settled(c) /\ outcome[c].cause = "answer"
        => /\ pc[c] = "resolved"
           /\ \A i \in DOMAIN result[c].data :
                 /\ result[c].data[i].userId = op[c].params.userId
                 /\ result[c].data[i].completed = op[c].params.completed
           /\ \E other \in {TodosOf([userId |-> op[c].params.userId,
                                     completed |-> ~op[c].params.completed])} :
                 /\ Range(result[c].data) \cap other = {}
                 /\ Range(result[c].data) \cup other
                       = TodosOf([userId |-> op[c].params.userId])
                 /\ Cardinality(Range(result[c].data) \cup other) = 20

C20_Witness ==
    \E c \in Callers :
        /\ Called(c, "getTodos")
        /\ op[c].params = [userId |-> 1, completed |-> FALSE]
        /\ pc[c] = "resolved"
        /\ Len(result[c].data) > 0 /\ Len(result[c].data) < 20
        /\ result[c].data[1].completed = FALSE

\* the number of parents a nested-list method selects by: posts, albums, users
NestedParentCount(name) ==
    CASE name = "getPostComments" -> PostCount
      [] name = "getAlbumPhotos"  -> AlbumCount
      [] OTHER                    -> UserCount

\* caller c asked for a single object whose id is outside the resource's range
SingleNotFound(c) ==
    /\ op[c] # None /\ op[c].name \in GetByIdMethods
    /\ op[c].id \notin 1..KnownRange(op[c].name)

\* caller c asked for the children of a parent that does not exist, by a
\* nested list or by a list filtered by the parent key alone
ParentNotFound(c) ==
    /\ op[c] # None
    /\ \/ /\ op[c].name \in NestedMethods
          /\ op[c].id \notin 1..NestedParentCount(op[c].name)
       \/ /\ op[c].name \in FilterMethods
          /\ op[c].params # Undefined
          /\ DOMAIN op[c].params = {ParentKey(op[c].name)}
          /\ op[c].params[ParentKey(op[c].name)] \notin 1..ParentCount(op[c].name)

\* C21: not-found is asymmetric: a get-by-id call for an id outside the
\* resource's range that the upstream answers rejects with an error, whereas
\* a nested-list or filtered-list call for a non-existent parent resolves
\* with status 200 and an empty list.
C21_NotFoundAsymmetry ==
    \A c \in Callers :
        Settled(c) /\ outcome[c].cause = "answer" =>
            /\ SingleNotFound(c) => pc[c] = "rejected" /\ IsError(result[c])
            /\ ParentNotFound(c) =>
                  /\ pc[c] = "resolved"
                  /\ result[c].status = 200
                  /\ result[c].data = <<>>

C21_Witness ==
    \E c \in Callers :
        /\ Called(c, "getComments") /\ op[c].params = [postId |-> 999]
        /\ pc[c] = "resolved" /\ result[c].status = 200 /\ result[c].data = <<>>

\* C22: deletePost(id) completes only by the settlement of its request, for
\* every id, and when the upstream answers it resolves with status 200 and
\* an empty object as data, whether or not the id exists.
C22_DeleteAlwaysSucceeds ==
    \A c \in Callers :
        Called(c, "deletePost") /\ Completed(c) =>
            /\ Settled(c)
            /\ outcome[c].cause = "answer" =>
                  /\ pc[c] = "resolved"
                  /\ result[c].status = 200
                  /\ result[c].data = EmptyObject

C22_Witness ==
    \E c \in Callers :
        /\ Called(c, "deletePost") /\ op[c].id = 999
        /\ pc[c] = "resolved" /\ result[c].status = 200
        /\ result[c].data = EmptyObject

\* C23: updatePost(id, body) and patchPost(id, body) for an existing id,
\* when the upstream answers, resolve with status 200 and data whose id is
\* the requested id and whose every field supplied in body has the supplied
\* value, for a full body, a body with only a title and an empty body.
C23_UpdateEcho ==
    \A c \in Callers :
        /\ op[c] # None /\ op[c].name \in {"updatePost", "patchPost"}
        /\ op[c].id \in 1..PostCount
        /\ Settled(c) /\ outcome[c].cause = "answer"
        => /\ pc[c] = "resolved"
           /\ result[c].status = 200
           /\ result[c].data.id = op[c].id
           /\ \A k \in DOMAIN op[c].postData :
                 /\ k \in DOMAIN result[c].data
                 /\ result[c].data[k] = op[c].postData[k]

C23_Witness ==
    \E c \in Callers :
        /\ Called(c, "updatePost") /\ op[c].id = 1
        /\ op[c].postData = [title |-> "T", body |-> "B", userId |-> 5]
        /\ pc[c] = "resolved" /\ result[c].status = 200
        /\ result[c].data = [id |-> 1, title |-> "T", body |-> "B", userId |-> 5]

ValidationMessages == {<<"Post ID must be positive">>, <<"Title and body are required">>}

\* the kind of the rejection of caller c, decided in the order of the catch
\* block: thrown before any request, a response, the timeout code, the rest
KindOf(c) ==
    IF ~Settled(c) THEN "validation"
    ELSE IF "response" \in DOMAIN outcome[c].error THEN "remote"
    ELSE IF "code" \in DOMAIN outcome[c].error /\ outcome[c].error.code = "ECONNABORTED"
    THEN "timeout"
    ELSE "other"

\* the kinds whose message template the message matches
KindsOfMessage(message) ==
    {kind \in {"validation", "remote", "timeout", "other"} :
        \/ kind = "validation" /\ message \in ValidationMessages
        \/ kind = "remote" /\ Head(message) = "API request failed: "
        \/ kind = "timeout" /\ Head(message) = "Request timed out after "
        \/ kind = "other" /\ Head(message) = "Unexpected error: "}

\* C25: every rejected call carries exactly one of the four error kinds, the
\* transport kinds being decided in a fixed order: an error with a response
\* is a remote rejection even when it carries the timeout code, the timeout
\* message needs no response and the code ECONNABORTED, and everything else
\* is an unexpected error; the message matches the template of that kind
\* and of no other.
C25_ErrorKinds ==
    \A c \in Callers :
        pc[c] = "rejected" =>
            /\ IsError(result[c])
            /\ KindsOfMessage(result[c].message) = {KindOf(c)}

C25_Witness ==
    \E c \in Callers :
        /\ pc[c] = "rejected" /\ Settled(c)
        /\ "response" \in DOMAIN outcome[c].error
        /\ "code" \in DOMAIN outcome[c].error
        /\ outcome[c].error.code = "ECONNABORTED"
        /\ KindsOfMessage(result[c].message) = {"remote"}

\* the status of the response the request of caller c was answered with
ReceivedStatus(c) ==
    IF "response" \in DOMAIN outcome[c]
    THEN outcome[c].response.status
    ELSE outcome[c].error.response.status

\* C26: a response whose status is in the 2xx or 3xx class is returned as a
\* success envelope, and the remote-rejection error is raised only for a
\* status outside 2xx/3xx.
C26_Original ==
    \A c \in Callers :
        Settled(c) /\ outcome[c].cause = "status" =>
            /\ ReceivedStatus(c) \in 200..399 =>
                  /\ pc[c] = "resolved"
                  /\ IsEnvelope(result[c])
                  /\ result[c].status = ReceivedStatus(c)
            /\ pc[c] = "rejected" => ReceivedStatus(c) \notin 200..399

\* the call of caller c has completed with a success envelope or with an
\* error, one of the two, and with the outcome of what was delivered: the
\* envelope of the response, or the timeout error when the timeout elapsed
CompletedOnce(c) ==
    /\ \/ pc[c] = "resolved" /\ IsEnvelope(result[c]) /\ ~IsError(result[c])
       \/ pc[c] = "rejected" /\ IsError(result[c]) /\ ~IsEnvelope(result[c])
    /\ Settled(c) /\ "response" \in DOMAIN outcome[c] =>
          pc[c] = "resolved" /\ result[c].status = outcome[c].response.status
    /\ Settled(c) /\ outcome[c].cause = "timeout" =>
          /\ pc[c] = "rejected"
          /\ result[c].message
                = <<"Request timed out after ", ToString(ConstructionTimeout), "ms">>

\* a completed call stays as it completed until its caller takes the outcome
StaysCompleted(c) ==
    Completed(c) =>
        \/ pc'[c] = "idle"
        \/ pc'[c] = pc[c] /\ result'[c] = result[c] /\ outcome'[c] = outcome[c]

\* C27: when the transport eventually delivers a response, a failure or the
\* timeout, every call that issues a request eventually completes, and it
\* completes exactly once, by its first settlement, with either a success
\* envelope or an error: the response's outcome if the response arrives, the
\* timeout error if the timeout elapses first.
C27_CallsComplete ==
    /\ \A c \in Callers : (pc[c] = "pending") ~> Completed(c)
    /\ [](\A c \in Callers : /\ Settled(c) => Completed(c)
                             /\ Completed(c) => CompletedOnce(c))
    /\ [][\A c \in Callers : StaysCompleted(c)]_vars

C27_Witness ==
    \E c \in Callers :
        /\ Called(c, "deletePost") /\ Len(sent[c]) = 1
        /\ pc[c] = "rejected" /\ outcome[c].cause = "timeout"
        /\ result[c].message = <<"Request timed out after ", "5000", "ms">>

\* the fixed order of main's calls
WorkflowOrder ==
    <<"getPosts", "getPost", "getPostComments", "getUsers", "getTodos", "getAlbums",
      "createPost">>

\* main has issued its calls in the fixed order, one at a time, each after
\* the success of all the earlier ones, whose envelopes it holds
IssuedInOrder ==
    /\ Len(main.issued) <= Len(WorkflowOrder)
    /\ \A i \in DOMAIN main.issued : main.issued[i].name = WorkflowOrder[i]
    /\ Len(main.issued) >= 2 => main.issued[2].id = 1
    /\ Len(main.issued) >= 3 => main.issued[3].id = 1
    /\ Len(main.issued) >= 5 => main.issued[5].params = [userId |-> 1]
    /\ Len(main.responses) = main.step
    /\ \A i \in DOMAIN main.responses : IsEnvelope(main.responses[i])
    /\ Len(main.issued) = main.step
          + (IF main.pc \in {"awaiting", "rejected", "exited"} THEN 1 ELSE 0)
    /\ Len(sent[MainCaller]) <= 1
    /\ pc[MainCaller] # "idle" =>
          main.pc = "awaiting" /\ op[MainCaller] = main.issued[Len(main.issued)]

\* main has returned its summary only after seven successes, and has
\* rejected only with the example's message and with no request in flight
MainOutcome ==
    /\ main.pc = "returned" =>
          /\ main.step = 7 /\ Len(main.issued) = 7
          /\ main.result.postsCount = Len(main.responses[1].data)
          /\ main.result.createdPostId = main.responses[7].data.id
    /\ main.pc \in {"rejected", "exited"} =>
          /\ main.step < 7
          /\ pc[MainCaller] = "idle"
          /\ IsError(main.result)
          /\ Head(main.result.message) = "Example usage failed: "

\* when the awaited call fails main rejects with 'Example usage failed: '
\* followed by the cause, and once main has ended no request is issued
MainStopsAtFailure ==
    /\ main.pc = "awaiting" /\ pc[MainCaller] = "rejected" /\ main'.pc # main.pc =>
          /\ main'.pc = "rejected"
          /\ main'.result.message
                = <<"Example usage failed: ", "Error", ": ">> \o result[MainCaller].message
    /\ main.pc \in {"rejected", "exited", "returned"} =>
          main'.issued = main.issued /\ sent' = sent

\* C28: main() issues its requests strictly one after another in the order
\* getPosts, getPost(1), getPostComments(1), getUsers, getTodos({userId:1}),
\* getAlbums, createPost, each only after the previous one succeeded; at the
\* first failing call no later request is issued and main rejects with
\* 'Example usage failed: <cause>'; main returns its summary only when all
\* seven calls succeeded.
C28_MainWorkflow ==
    /\ [](IssuedInOrder /\ MainOutcome)
    /\ [][MainStopsAtFailure]_vars

C28_Witness ==
    /\ main.pc = "rejected" /\ main.step = 4 /\ Len(main.issued) = 5
    /\ main.issued[5].name = "getTodos"
    /\ main.result.message
          = <<"Example usage failed: ", "Error", ": ",
              "Request timed out after ", "10000", "ms">>

====
